---------------------------- MODULE Spec2Model ----------------------------
(***************************************************************************)
(* Model of the two Blender automation scripts of BlendAi:                 *)
(*   src/BlendAI_Smart.py   class SmartBlendAI                             *)
(*   src/BlendAI_Ubuntu.py  class BlendAISetup                             *)
(*                                                                         *)
(* The model covers the bounds / placement arithmetic of both scripts:     *)
(* collecting the world coordinates of the mesh vertices of the tracked    *)
(* objects, the axis-aligned bounding box, the centre and size, the        *)
(* placement of the reference plane and the placement of the camera.       *)
(*                                                                         *)
(* Numbers.  The scripts compute with floats.  The model computes with     *)
(* exact fixed-point numbers: every length is an integer number of         *)
(* 1/FP units (tenths), so 1.5 is 15, 0.8 is 8 and 0.5 is 5.  Vertex       *)
(* coordinates are whole units (multiples of FP), for which every product  *)
(* and quotient the code forms is exact in tenths.  Float rounding is not  *)
(* modelled.                                                               *)
(***************************************************************************)
EXTENDS Integers, Sequences, FiniteSets, TLC

VARIABLES
    script,            \* which program runs: "smart" or "ubuntu"
    host,              \* the objects the host application yields
                       \* (generated mesh / content of the FBX file)
    imported_objects,  \* self.imported_objects
    reference_plane,   \* self.reference_plane and the plane object's fields
    reference_image_path,  \* self.reference_image_path: "none" or "set"
    camera,            \* the scene object named 'Camera'
    last,              \* the locals and outcome of the most recent call
    earlier,           \* a placement was applied before the most recent call
    result,            \* what the routine last.op returned and logged
    run,               \* the most recent run of a pipeline function or main
    threads            \* the placement invocations that run concurrently

vars == <<script, host, imported_objects, reference_plane,
          reference_image_path, camera, last, earlier, result, run, threads>>

---------------------------------------------------------------------------
(* Bounds of the model *)

MaxVerts == 2     \* mesh vertices of all host objects together
MaxObjs  == 2     \* objects the host yields at once
MaxCalls == 2     \* calls of a pipeline function on one instance

(* Fixed-point denominator: lengths are counted in 1/FP units. *)
FP == 10

(* Program constants, in 1/FP units *)
OFFSET_MULT  == 15   \* max(model_size) * 1.5
SCALE_MULT   == 8    \* max(model_size) * 0.8
DIST_MULT    == 20   \* max(size) * 2
HEIGHT_RATIO == 5    \* distance * 0.5
PLANE_X0     == 50   \* primitive_plane_add(size=3, location=(5, 0, 0))
WIDTH_PAD    == 5    \* model_width * 0.5

---------------------------------------------------------------------------
(* Vectors (mathutils.Vector), as triples of fixed-point numbers *)

Zero3 == <<0, 0, 0>>
One3  == <<FP, FP, FP>>

VAdd(a, b) == <<a[1] + b[1], a[2] + b[2], a[3] + b[3]>>
VSub(a, b) == <<a[1] - b[1], a[2] - b[2], a[3] - b[3]>>
\* Vector / 2
VHalf(a)   == <<a[1] \div 2, a[2] \div 2, a[3] \div 2>>
\* x * m for a float literal m given in 1/FP units
Mul(x, m)  == (x * m) \div FP

Abs(x) == IF x < 0 THEN -x ELSE x

RECURSIVE Gcd(_, _)
Gcd(a, b) == IF b = 0 THEN a ELSE Gcd(b, a % b)

\* variant: the largest of the X and Y components only
Max3OfXY(v) == IF v[2] > v[1] THEN v[2] ELSE v[1]

\* max(v) of a Vector: the largest of its three components
Max3(v) ==
    LET m12 == IF v[2] > v[1] THEN v[2] ELSE v[1]
    IN  IF v[3] > m12 THEN v[3] ELSE m12


---------------------------------------------------------------------------
(* The host's objects.  An object has a type and, as verts, the world      *)
(* coordinate obj.matrix_world @ vertex.co of each point of its data.  Only *)
(* a 'MESH' object's points are mesh vertices; a 'CURVE' object stands for  *)
(* the objects of any other type, whose data has no vertices to read.       *)

\* sample coordinates: -1.0 and 2.0
Coord  == {-FP, 2 * FP}
Points == Coord \X Coord \X Coord

Meshes(n) == [type : {"MESH"}, verts : [1..n -> Points]]
Curve     == [type |-> "CURVE", verts |-> << <<-3 * FP, -3 * FP, -3 * FP>> >>]

\* object lists of at most k objects with at most budget mesh vertices in all
RECURSIVE HostLists(_, _)
HostLists(k, budget) ==
    IF k = 0 THEN {<<>>}
    ELSE {<<>>}
         \cup (LET rest == HostLists(k - 1, budget)
               IN  {<<Curve>> \o l : l \in rest})
         \cup UNION {LET rest == HostLists(k - 1, budget - n)
                     IN  {<<o>> \o l : o \in Meshes(n), l \in rest}
                     : n \in 0..budget}

\* bpy.ops.mesh.primitive_cube_add(size=2): the eight corners (+-1, +-1, +-1)
Cube ==
    [type  |-> "MESH",
     verts |-> << <<-FP, -FP, -FP>>, <<-FP, -FP, FP>>, <<-FP, FP, -FP>>,
                  <<-FP, FP, FP>>,  <<FP, -FP, -FP>>,  <<FP, -FP, FP>>,
                  <<FP, FP, -FP>>,  <<FP, FP, FP>> >>]

---------------------------------------------------------------------------
(* The bounds computation shared by the three placement routines *)

\* for obj in self.imported_objects: if obj.type == 'MESH':
\*     for vertex in obj.data.vertices: all_coords.append(world_coord)
RECURSIVE AllCoords(_)
AllCoords(objs) ==
    IF objs = <<>> THEN <<>>
    ELSE (IF Head(objs).type = "MESH" THEN Head(objs).verts ELSE <<>>)
         \o AllCoords(Tail(objs))

\* variant: the emptiness test is dropped
HasCoordsAlways(coords) == TRUE

\* if all_coords:
HasCoords(coords) == coords # <<>>

\* (coord.x for coord in all_coords), for axis i
Axis(coords, i) == [k \in 1..Len(coords) |-> coords[k][i]]

\* Python's min() and max() over a non-empty iterable: a left-to-right scan
RECURSIVE ScanMin(_, _)
ScanMin(acc, s) ==
    IF s = <<>> THEN acc
    ELSE ScanMin(IF Head(s) < acc THEN Head(s) ELSE acc, Tail(s))

RECURSIVE ScanMax(_, _)
ScanMax(acc, s) ==
    IF s = <<>> THEN acc
    ELSE ScanMax(IF Head(s) > acc THEN Head(s) ELSE acc, Tail(s))

\* variant: the minimum is taken with the comparison of the maximum
PyMinAsMax(s) == ScanMax(Head(s), Tail(s))

PyMin(s) == ScanMin(Head(s), Tail(s))
PyMax(s) == ScanMax(Head(s), Tail(s))

MinCoords(coords) ==
    <<PyMin(Axis(coords, 1)), PyMin(Axis(coords, 2)), PyMin(Axis(coords, 3))>>
MaxCoords(coords) ==
    <<PyMax(Axis(coords, 1)), PyMax(Axis(coords, 2)), PyMax(Axis(coords, 3))>>

\* variant: the sum of the corners is not halved
CenterNotHalved(mn, mx) == VAdd(mn, mx)

\* variant: half the extent is taken for the center
CenterAsHalfSize(mn, mx) == VHalf(VSub(mx, mn))

\* (min_coords + max_coords) / 2
Center(mn, mx) == VHalf(VAdd(mn, mx))
\* variant: the corners are subtracted the other way round
SizeSwapped(mn, mx) == VSub(mn, mx)

\* max_coords - min_coords
Size(mn, mx) == VSub(mx, mn)

\* min() and max() raise ValueError on an empty sequence
MinRaises(coords) == coords = <<>>

---------------------------------------------------------------------------
(* The record of the most recent call: its locals and its outcome.         *)
(*   op      the routine that ran last                                     *)
(*   coords  all_coords as collected ("<<>>" when the routine returned     *)
(*           before collecting)                                            *)
(*   placed  the branch under "if all_coords:" ran to its end              *)
(*   err     "none", or "caught" for an exception caught and logged by the *)
(*           routine or its caller                                         *)

Trace(op, coords, placed, mn, mx, c, sz, err) ==
    [op |-> op, coords |-> coords, placed |-> placed,
     min_coords |-> mn, max_coords |-> mx, center |-> c, size |-> sz,
     err |-> err]

Idle(op) == Trace(op, <<>>, FALSE, Zero3, Zero3, Zero3, Zero3, "none")
Skipped(op, coords) ==
    Trace(op, coords, FALSE, Zero3, Zero3, Zero3, Zero3, "none")
Failed(op, coords) ==
    Trace(op, coords, FALSE, Zero3, Zero3, Zero3, Zero3, "caught")

NoPlane == [state |-> "none", location |-> Zero3, scale |-> One3]

---------------------------------------------------------------------------
(* SmartBlendAI._position_reference_plane *)

\* variant: the offset is taken from the width instead of the largest extent
OffsetDistanceOfWidth(model_size) == Mul(model_size[1], OFFSET_MULT)

\* offset_distance = max(model_size) * 1.5
OffsetDistance(model_size) == Mul(Max3(model_size), OFFSET_MULT)
\* scale_factor = max(model_size) * 0.8
ScaleFactor(model_size) == Mul(Max3(model_size), SCALE_MULT)

\* location.x and location.z are assigned, location.y is not
SmartPlaneLocation(loc, model_center, model_size) ==
    <<model_center[1] + OffsetDistance(model_size), loc[2], model_center[3]>>

\* variant: only the X scale is set
SmartPlaneScaleXOnly(model_size) == <<ScaleFactor(model_size), FP, FP>>

\* self.reference_plane.scale = (scale_factor, scale_factor, 1)
SmartPlaneScale(model_size) ==
    <<ScaleFactor(model_size), ScaleFactor(model_size), FP>>

SmartPositionReferencePlane(plane, objs) ==
    IF plane.state = "none" \/ objs = <<>>
    THEN [plane |-> plane, trace |-> Idle("smart_position")]
    ELSE
      LET coords == AllCoords(objs) IN
      IF ~HasCoords(coords)
      THEN [plane |-> plane, trace |-> Skipped("smart_position", coords)]
      ELSE IF MinRaises(coords) \/ plane.state = "removed"
      THEN \* except Exception as e: logger.error(...)
           [plane |-> plane, trace |-> Failed("smart_position", coords)]
      ELSE
        LET mn == MinCoords(coords)
            mx == MaxCoords(coords)
            model_center == Center(mn, mx)
            model_size   == Size(mn, mx)
        IN  [plane |-> [plane EXCEPT
                 !.location = SmartPlaneLocation(@, model_center, model_size),
                 !.scale    = SmartPlaneScale(model_size)],
             trace |-> Trace("smart_position", coords, TRUE, mn, mx,
                             model_center, model_size, "none")]

---------------------------------------------------------------------------
(* BlendAISetup._position_reference_plane *)

\* max_coords.x + model_width * 0.5 ; (min_coords.z + max_coords.z) / 2
UbuntuPlaneLocation(loc, mn, mx) ==
    LET model_width == mx[1] - mn[1]
    IN  <<mx[1] + Mul(model_width, WIDTH_PAD), loc[2], (mn[3] + mx[3]) \div 2>>

UbuntuPositionReferencePlane(plane, objs) ==
    IF objs = <<>> \/ plane.state = "none"
    THEN [plane |-> plane, trace |-> Idle("ubuntu_position")]
    ELSE
      LET coords == AllCoords(objs) IN
      IF ~HasCoords(coords)
      THEN [plane |-> plane, trace |-> Skipped("ubuntu_position", coords)]
      ELSE IF MinRaises(coords) \/ plane.state = "removed"
      THEN \* no handler here: the exception is caught by the caller
           [plane |-> plane, trace |-> Failed("ubuntu_position", coords)]
      ELSE
        LET mn == MinCoords(coords)
            mx == MaxCoords(coords)
        IN  [plane |-> [plane EXCEPT
                 !.location = UbuntuPlaneLocation(@, mn, mx)],
             trace |-> Trace("ubuntu_position", coords, TRUE, mn, mx,
                             Zero3, Zero3, "none")]

---------------------------------------------------------------------------
(* SmartBlendAI.render_smart_preview: the camera placement *)

\* A rotation is recorded as the direction the camera looks along (its -Z
\* axis), as the shortest integer vector of that direction.
Normalize(v) ==
    LET g == Gcd(Gcd(Abs(v[1]), Abs(v[2])), Abs(v[3]))
    IN  <<v[1] \div g, v[2] \div g, v[3] \div g>>

\* direction.to_track_quat('-Z', 'Y').to_euler(): the rotation that turns -Z
\* onto direction; for a zero-length direction the host returns the identity
ToTrackQuat(direction) ==
    IF direction = Zero3 THEN <<0, 0, -1>> ELSE Normalize(direction)

NoCamera      == [exists |-> FALSE, location |-> Zero3, rotation |-> <<0, 0, -1>>]
\* bpy.ops.object.camera_add(): a camera at the 3D cursor, unrotated
AddedCamera   == [exists |-> TRUE, location |-> Zero3, rotation |-> <<0, 0, -1>>]
\* the camera of the host's startup scene
DefaultCamera == [exists |-> TRUE, location |-> <<74, -69, 50>>,
                  rotation |-> <<-74, 69, -50>>]

\* variant: the distance is kept at 1.0 or more
DistanceClamped(size) ==
    IF Mul(Max3(size), DIST_MULT) < FP THEN FP ELSE Mul(Max3(size), DIST_MULT)

\* distance = max(size) * 2
Distance(size) == Mul(Max3(size), DIST_MULT)

\* variant: the Y offset has the sign of the X offset
CameraLocationSameSign(center, distance) ==
    VAdd(center, <<distance, distance, Mul(distance, HEIGHT_RATIO)>>)

\* center + Vector((distance, -distance, distance * 0.5))
CameraLocation(center, distance) ==
    VAdd(center, <<distance, -distance, Mul(distance, HEIGHT_RATIO)>>)

\* variant: the direction points from the center to the camera
DirectionReversed(center, location) == VSub(location, center)

\* direction = center - camera.location
Direction(center, location) == VSub(center, location)

\* variant: the camera is moved by the offset from where it stands
PlaceCameraRelative(cam, center, size) ==
    LET c0 == IF cam.exists THEN cam ELSE AddedCamera
        d  == Mul(Max3(size), DIST_MULT)
        location == VAdd(c0.location, <<d, -d, Mul(d, HEIGHT_RATIO)>>)
    IN  [c0 EXCEPT !.location = location,
                   !.rotation = IF VSub(center, location) = Zero3
                                THEN <<0, 0, -1>>
                                ELSE Normalize(VSub(center, location))]

\* camera = bpy.data.objects.get('Camera') or a newly added one; then its
\* location and rotation_euler are assigned
PlaceCamera(cam, center, size) ==
    LET c0 == IF cam.exists THEN cam ELSE AddedCamera
        location == CameraLocation(center, Distance(size))
    IN  [c0 EXCEPT !.location = location,
                   !.rotation = ToTrackQuat(Direction(center, location))]

\* variant: without points the camera is still fetched or added and placed,
\* for a box of size zero at the origin
SmartCameraPlacementEager(cam, objs) ==
    LET coords == AllCoords(objs) IN
    IF HasCoords(coords)
    THEN [camera |-> PlaceCamera(cam, Center(MinCoords(coords),
                                             MaxCoords(coords)),
                                 Size(MinCoords(coords), MaxCoords(coords))),
          trace  |-> Trace("render", coords, TRUE, MinCoords(coords),
                           MaxCoords(coords),
                           Center(MinCoords(coords), MaxCoords(coords)),
                           Size(MinCoords(coords), MaxCoords(coords)),
                           "none")]
    ELSE [camera |-> PlaceCamera(cam, Zero3, Zero3),
          trace  |-> Skipped("render", coords)]

SmartCameraPlacement(cam, objs) ==
    IF objs = <<>>
    THEN [camera |-> cam, trace |-> Idle("render")]
    ELSE
      LET coords == AllCoords(objs) IN
      IF ~HasCoords(coords)
      THEN [camera |-> cam, trace |-> Skipped("render", coords)]
      ELSE IF MinRaises(coords)
      THEN \* except Exception as e: ... return False
           [camera |-> cam, trace |-> Failed("render", coords)]
      ELSE
        LET mn == MinCoords(coords)
            mx == MaxCoords(coords)
            center == Center(mn, mx)
            size   == Size(mn, mx)
        IN  [camera |-> PlaceCamera(cam, center, size),
             trace  |-> Trace("render", coords, TRUE, mn, mx, center, size,
                              "none")]

---------------------------------------------------------------------------
(* What a routine returns and what it logs: ret is the returned value       *)
(* ("raised" when an exception leaves the routine), log the levels of the   *)
(* messages the routine itself writes.                                      *)

Outcome(ret, log) == [ret |-> ret, log |-> log]

\* variant: a skipped placement is reported: logger.warning and return False
SmartPositionOutcomeReported(trace) ==
    IF trace.err = "caught" THEN Outcome("None", {"error"})
    ELSE IF trace.placed THEN Outcome("None", {"info"})
    ELSE Outcome("False", {"warning"})

\* SmartBlendAI._position_reference_plane has no return value on any path;
\* it logs info after placing and error in its handler
SmartPositionOutcome(trace) ==
    Outcome("None", IF trace.err = "caught" THEN {"error"}
                    ELSE IF trace.placed THEN {"info"} ELSE {})

\* BlendAISetup._position_reference_plane has no return value, no logger
\* call and no handler
UbuntuPositionOutcome(trace) ==
    Outcome(IF trace.err = "caught" THEN "raised" ELSE "None", {})

\* render_smart_preview after the camera placement: the light, the render
\* settings and the render.  rendered: bpy.ops.render.render did not raise
SmartRenderOutcome(trace, rendered) ==
    IF trace.err = "caught" \/ ~rendered
    THEN Outcome("False", {"error"})
    ELSE Outcome("True", {"info"})

\* _setup_reference_image when it does not reach the positioning: the early
\* return False, or the handler's logger.error and return False
SmartSetupOutcome(trace) ==
    IF trace.err = "caught"
    THEN Outcome("False", {"info", "error"})
    ELSE Outcome("False", {})

\* setup_reference_image / _create_reference_plane_manually when they do not
\* reach the positioning: logger.error and return False
UbuntuSetupOutcome(trace) == Outcome("False", {"error"})

\* import_model
UbuntuImportOutcome(trace) ==
    IF trace.err = "caught"
    THEN Outcome("False", {"error"})
    ELSE Outcome("True", {"info"})

\* the outcome of the routine a trace is of
OutcomeOf(trace, rendered) ==
    CASE trace.op = "smart_position"  -> SmartPositionOutcome(trace)
      [] trace.op = "ubuntu_position" -> UbuntuPositionOutcome(trace)
      [] trace.op = "render"          -> SmartRenderOutcome(trace, rendered)
      [] trace.op = "smart_setup"     -> SmartSetupOutcome(trace)
      [] trace.op = "ubuntu_setup"    -> UbuntuSetupOutcome(trace)
      [] trace.op = "import"          -> UbuntuImportOutcome(trace)
      [] OTHER                        -> Outcome("None", {})

\* no pipeline function has run; no placement runs concurrently
NoRun     == [fn |-> "none", calls |-> <<>>, ret |-> "None", n |-> 0]
NoThreads == <<>>

---------------------------------------------------------------------------
(* State after construction *)

Init ==
    /\ script \in {"smart", "ubuntu"}
    /\ host \in IF script = "smart"
                THEN HostLists(1, MaxVerts) \ {<<>>}
                ELSE HostLists(MaxObjs, MaxVerts)
    /\ imported_objects = <<>>
    /\ reference_plane = NoPlane
    /\ reference_image_path = IF script = "smart" THEN "none" ELSE "set"
    /\ camera \in {DefaultCamera, NoCamera}   \* startup scene or an empty one
    /\ last = Idle("init")
    /\ earlier = FALSE
    /\ result = Outcome("None", {})
    /\ run = NoRun
    /\ threads = NoThreads

---------------------------------------------------------------------------
(* SmartBlendAI *)

\* bpy.ops.object.select_all(action='SELECT'); bpy.ops.object.delete()
Removed(plane) ==
    IF plane.state = "none" THEN plane ELSE [plane EXCEPT !.state = "removed"]

\* bpy.ops.mesh.primitive_plane_add(size=3, location=(5, 0, 0))
SmartNewPlane == [state |-> "live", location |-> <<PLANE_X0, 0, 0>>,
                  scale |-> One3]

\* _setup_reference_image: returns early when the image file is gone;
\* otherwise a new plane, its material (loading the image may raise, which is
\* caught), then the positioning
SmartSetupReferenceImage(plane, objs, outcome) ==
    CASE outcome = "file_gone"   ->
             [plane |-> plane, trace |-> Idle("smart_setup")]
      [] outcome = "load_failed" ->
             [plane |-> SmartNewPlane, trace |-> Failed("smart_setup", <<>>)]
      [] outcome = "ok"          ->
             SmartPositionReferencePlane(SmartNewPlane, objs)

\* generate_model_from_text with a method that succeeds:
\*   geom = "host": the generated mesh is what the host makes of the
\*                  primitives, metaballs and modifiers of the generator
\*   geom = "cube": _create_procedural_generic's primitive cube
\*   ref: reference_image is absent, names no file ("missing") or a file
SmartGenerate(geom, ref, outcome) ==
    /\ script = "smart"
    /\ LET path == IF ref = "exists" THEN "set" ELSE reference_image_path
           objs == IF geom = "host" THEN host ELSE <<Cube>>
           r    == SmartSetupReferenceImage(Removed(reference_plane), objs,
                                            outcome)
       IN  /\ reference_image_path' = path
           /\ imported_objects' = objs
           /\ camera' = NoCamera
           /\ IF path = "set"
              THEN /\ reference_plane' = r.plane /\ last' = r.trace
                   /\ result' = OutcomeOf(r.trace, TRUE)
              ELSE /\ outcome = "ok"
                   /\ reference_plane' = Removed(reference_plane)
                   /\ last' = Idle("generate")
                   /\ result' = Outcome("model", {"info"})
    /\ earlier' = (earlier \/ last.placed)
    /\ UNCHANGED <<script, host, run, threads>>

\* render_smart_preview: the camera placement, then the render, which may fail
SmartRenderPreview(rendered) ==
    /\ script = "smart"
    /\ LET r == SmartCameraPlacement(camera, imported_objects)
       IN  /\ camera' = r.camera /\ last' = r.trace
           /\ result' = OutcomeOf(r.trace, rendered)
    /\ earlier' = (earlier \/ last.placed)
    /\ UNCHANGED <<script, host, imported_objects, reference_plane,
                   reference_image_path, run, threads>>

---------------------------------------------------------------------------
(* BlendAISetup *)

\* import_model: the objects new in the scene after the FBX import; it
\* fails when the import raises (imported = FALSE) or adds no object
UbuntuImportModel(imported) ==
    /\ script = "ubuntu"
    /\ imported_objects' = IF imported THEN host ELSE imported_objects
    /\ last' = IF imported /\ host # <<>>
               THEN Idle("import") ELSE Failed("import", <<>>)
    /\ result' = OutcomeOf(last', TRUE)
    /\ earlier' = (earlier \/ last.placed)
    /\ UNCHANGED <<script, host, reference_plane, reference_image_path,
                   camera, run, threads>>

\* the plane made by import_image.to_plane or by primitive_plane_add(size=2,
\* location=(0, 0, 0))
UbuntuNewPlane == [state |-> "live", location |-> Zero3, scale |-> One3]

\* _create_reference_plane_manually
UbuntuCreateManually(objs, loaded) ==
    IF ~loaded
    THEN [plane |-> UbuntuNewPlane, trace |-> Failed("ubuntu_setup", <<>>)]
    ELSE UbuntuPositionReferencePlane(UbuntuNewPlane, objs)

\* setup_reference_image
\*   how = "addon":  import_image.to_plane made a plane
\*   how = "none":   import_image.to_plane made no object
\*   how = "manual": the addon is missing or raised
UbuntuSetupResult(plane, objs, how, loaded) ==
    LET viaAddon == UbuntuPositionReferencePlane(UbuntuNewPlane, objs)
        manual   == UbuntuCreateManually(objs, loaded)
    IN  CASE how = "none"   -> [plane |-> plane,
                                trace |-> Idle("ubuntu_setup")]
          [] how = "manual" -> manual
          [] how = "addon"  -> IF viaAddon.trace.err = "caught"
                               THEN manual ELSE viaAddon

UbuntuSetupReferenceImage(how, loaded) ==
    /\ script = "ubuntu"
    /\ how = "none" => loaded
    /\ LET r == UbuntuSetupResult(reference_plane, imported_objects, how,
                                  loaded)
       IN  /\ reference_plane' = r.plane /\ last' = r.trace
           /\ result' = OutcomeOf(r.trace, TRUE)
    /\ earlier' = (earlier \/ last.placed)
    /\ UNCHANGED <<script, host, imported_objects, reference_image_path,
                   camera, run, threads>>

---------------------------------------------------------------------------

Next ==
    \/ \E geom \in {"host", "cube"}, ref \in {"absent", "missing", "exists"},
          outcome \in {"ok", "load_failed", "file_gone"} :
              SmartGenerate(geom, ref, outcome)
    \/ \E rendered \in BOOLEAN : SmartRenderPreview(rendered)
    \/ \E imported \in BOOLEAN : UbuntuImportModel(imported)
    \/ \E how \in {"addon", "none", "manual"}, loaded \in BOOLEAN :
          UbuntuSetupReferenceImage(how, loaded)

Spec == Init /\ [][Next]_vars

---------------------------------------------------------------------------
(* SmartBlendAI on one generated mesh of TriVerts vertices: the sample      *)
(* points, and the points (0,0,0), (2,0,0), (0,0,4) in every order.         *)

TriVerts == 3

ScenarioPoints == {<<0, 0, 0>>, <<2 * FP, 0, 0>>, <<0, 0, 4 * FP>>}

ScenarioMeshes ==
    {m \in [type : {"MESH"}, verts : [1..3 -> ScenarioPoints]] :
        {m.verts[k] : k \in 1..3} = ScenarioPoints}

TriInit ==
    /\ script = "smart"
    /\ host \in {<<m>> : m \in Meshes(TriVerts) \cup ScenarioMeshes}
    /\ imported_objects = <<>>
    /\ reference_plane = NoPlane
    /\ reference_image_path = "none"
    /\ camera = DefaultCamera
    /\ last = Idle("init")
    /\ earlier = FALSE
    /\ result = Outcome("None", {})
    /\ run = NoRun
    /\ threads = NoThreads

TriNext ==
    \/ \E geom \in {"host", "cube"}, ref \in {"absent", "missing", "exists"},
          outcome \in {"ok", "load_failed", "file_gone"} :
              SmartGenerate(geom, ref, outcome)
    \/ \E rendered \in BOOLEAN : SmartRenderPreview(rendered)

TriSpec == TriInit /\ [][TriNext]_vars

---------------------------------------------------------------------------
(* Two invocations of render_smart_preview's camera placement that run at   *)
(* the same time in one host process, each on its own list of objects.  The *)
(* camera is the one scene object named 'Camera'.  An invocation is at      *)
(*   "start"     before the bounds are computed                             *)
(*   "computed"  center and distance are in its locals                      *)
(*   "located"   it has assigned camera.location                            *)
(*   "done"      it has assigned camera.rotation_euler, or has skipped      *)
(* and location and rotation record what it assigned.                       *)

Snapshots == {<<Cube>>, <<Curve>>} \cup {<<m>> : m \in Meshes(1)}

Invocation(objs) ==
    [pc |-> "start", objs |-> objs, center |-> Zero3, distance |-> 0,
     location |-> Zero3, rotation |-> <<0, 0, -1>>]

ConcInit ==
    /\ script = "smart"
    /\ host = <<Cube>>
    /\ imported_objects = <<>>
    /\ reference_plane = NoPlane
    /\ reference_image_path = "none"
    /\ camera = DefaultCamera
    /\ last = Idle("init")
    /\ earlier = FALSE
    /\ result = Outcome("None", {})
    /\ run = NoRun
    /\ threads \in [1..2 -> {Invocation(objs) : objs \in Snapshots}]

\* all_coords, min_coords, max_coords, center, size, distance
ThreadCompute(t) ==
    /\ threads[t].pc = "start"
    /\ LET coords == AllCoords(threads[t].objs)
           mn == MinCoords(coords)
           mx == MaxCoords(coords)
       IN  threads' = [threads EXCEPT ![t] =
               IF HasCoords(coords)
               THEN [@ EXCEPT !.pc = "computed",
                              !.center = Center(mn, mx),
                              !.distance = Distance(Size(mn, mx))]
               ELSE [@ EXCEPT !.pc = "done"]]
    /\ UNCHANGED <<script, host, imported_objects, reference_plane,
                   reference_image_path, camera, last, earlier, result, run>>

\* camera = bpy.data.objects.get('Camera') or a new one;
\* camera.location = center + Vector((distance, -distance, distance * 0.5))
ThreadLocate(t) ==
    /\ threads[t].pc = "computed"
    /\ LET c0 == IF camera.exists THEN camera ELSE AddedCamera
           location == CameraLocation(threads[t].center, threads[t].distance)
       IN  /\ camera' = [c0 EXCEPT !.location = location]
           /\ threads' = [threads EXCEPT ![t] =
                   [@ EXCEPT !.pc = "located", !.location = location]]
    /\ UNCHANGED <<script, host, imported_objects, reference_plane,
                   reference_image_path, last, earlier, result, run>>

\* direction = center - camera.location;
\* camera.rotation_euler = direction.to_track_quat('-Z', 'Y').to_euler()
ThreadAim(t) ==
    /\ threads[t].pc = "located"
    /\ LET rotation == ToTrackQuat(Direction(threads[t].center,
                                             camera.location))
       IN  /\ camera' = [camera EXCEPT !.rotation = rotation]
           /\ threads' = [threads EXCEPT ![t] =
                   [@ EXCEPT !.pc = "done", !.rotation = rotation]]
    /\ UNCHANGED <<script, host, imported_objects, reference_plane,
                   reference_image_path, last, earlier, result, run>>

ConcNext ==
    \E t \in 1..2 : ThreadCompute(t) \/ ThreadLocate(t) \/ ThreadAim(t)

ConcSpec == ConcInit /\ [][ConcNext]_vars

---------------------------------------------------------------------------
(* SmartBlendAI.generate_model_from_text in full.  A prompt is given by the *)
(* keywords of the code's lists that occur in it: {"sword"} stands for      *)
(* 'medieval sword with flame effects', {} for a prompt with none of them.  *)

Prompts == {{"sword"}, {"weapon"}, {"warrior"}, {"castle"}, {}}
ModelTypes == {"auto", "character", "weapon", "building"}

\* any(word in prompt_lower for word in [...])
AnyWord(prompt, words) == prompt \cap words # {}

\* _analyze_reference_image: analysis['type']
ReferenceKind(prompt) ==
    IF AnyWord(prompt, {"sword", "blade", "katana", "dagger", "greatsword"})
    THEN "sword"
    ELSE IF AnyWord(prompt, {"human", "character", "warrior", "mage"})
    THEN "character"
    ELSE IF AnyWord(prompt, {"castle", "building", "tower", "house"})
    THEN "building"
    ELSE "generic"

\* the if / elif chain of _generate_with_procedural
ProceduralKind(prompt) ==
    IF AnyWord(prompt, {"sword", "blade", "weapon"}) THEN "sword"
    ELSE IF AnyWord(prompt, {"human", "person", "character", "man", "woman"})
    THEN "human"
    ELSE IF AnyWord(prompt, {"goblin", "orc", "monster", "creature"})
    THEN "creature"
    ELSE IF AnyWord(prompt, {"building", "house", "castle", "tower"})
    THEN "building"
    ELSE "generic"

\* the generator each branch calls
ReferenceGenerator ==
    [sword     |-> "_create_reference_guided_sword",
     character |-> "_create_reference_guided_character",
     building  |-> "_create_reference_guided_building",
     generic   |-> "_create_reference_guided_generic"]
ProceduralGenerator ==
    [sword    |-> "_create_procedural_sword",
     human    |-> "_create_procedural_human",
     creature |-> "_create_procedural_creature",
     building |-> "_create_procedural_building",
     generic  |-> "_create_procedural_generic"]

\* the generators class SmartBlendAI defines
DefinedGenerators ==
    {"_create_reference_guided_sword", "_create_reference_guided_character",
     "_create_reference_guided_building", "_create_reference_guided_generic",
     "_create_procedural_human", "_create_procedural_creature",
     "_create_procedural_building", "_create_procedural_generic"}

\* The fields and the scene a call works on, and the calls it has made so
\* far: each entry is a function that returned (ret) or raised ("raised").
World(op) ==
    [imported_objects |-> imported_objects,
     reference_plane |-> reference_plane,
     reference_image_path |-> reference_image_path,
     camera |-> camera,
     last |-> Idle(op),
     result |-> Outcome("None", {}),
     calls |-> <<>>]

Called(w, fn, ret) ==
    [w EXCEPT !.calls = Append(@, [fn |-> fn, ret |-> ret])]

Return(w, fn, ret) == [w |-> Called(w, fn, ret), ret |-> ret]

\* bpy.ops.object.select_all(action='SELECT'); bpy.ops.object.delete()
ClearAll(w) ==
    [w EXCEPT !.reference_plane = Removed(@), !.camera = NoCamera]

\* self.imported_objects as a generator leaves it: the primitive cube of
\* _create_procedural_generic, or what the host makes of the other shapes
Generated(name) ==
    IF name = "_create_procedural_generic" THEN <<Cube>> ELSE host

\* A generator clears the scene, builds and exports the model, tracks it
\* and returns the path of the exported file (here: the generator's name).
\* fails: a host operation raises after the scene was cleared.
Create(w, name, fails) ==
    IF name \notin DefinedGenerators
    THEN [w |-> w, ret |-> "raised"]          \* AttributeError
    ELSE IF fails
    THEN Return(ClearAll(w), name, "raised")
    ELSE Return([ClearAll(w) EXCEPT !.imported_objects = Generated(name)],
                name, name)

\* variant: the type hint chooses the branch when it is not 'auto'
ProceduralChoiceByHint(prompt, model_type) ==
    CASE model_type = "character" -> "human"
      [] model_type = "weapon"    -> "sword"
      [] model_type = "building"  -> "building"
      [] OTHER                    -> ProceduralKind(prompt)

\* the branch _generate_with_procedural takes; model_type is not read
ProceduralChoice(prompt, model_type) == ProceduralKind(prompt)

\* the branch _generate_with_reference_analysis takes; model_type is not read
ReferenceChoice(prompt, model_type) == ReferenceKind(prompt)

\* the three generation methods; a method returns what its generator
\* returns and raises what its generator raises
Method(m, w, prompt, model_type, fails) ==
    CASE m = "_generate_with_reference_analysis" ->
           IF w.reference_image_path = "none"
           THEN Return(w, m, "None")
           ELSE LET g == Create(w, ReferenceGenerator[
                                       ReferenceChoice(prompt, model_type)],
                                fails)
                IN  Return(g.w, m, g.ret)
      [] m = "_generate_with_procedural" ->
           LET g == Create(w, ProceduralGenerator[
                                  ProceduralChoice(prompt, model_type)],
                           fails)
           IN  Return(g.w, m, g.ret)
      [] m = "_generate_basic_primitive" ->
           LET g == Create(w, "_create_procedural_generic", fails)
           IN  Return(g.w, m, g.ret)

\* self._setup_reference_image() as called from generate_model_from_text
SetupReferenceImage(w, outcome) ==
    LET r == SmartSetupReferenceImage(w.reference_plane, w.imported_objects,
                                      outcome)
    IN  Called([w EXCEPT !.reference_plane = r.plane,
                         !.last = r.trace,
                         !.result = OutcomeOf(r.trace, TRUE)],
               "_setup_reference_image",
               IF r.trace.op = "smart_position" THEN "True" ELSE "False")

\* variant: the fallback primitive is tried first
MethodsPrimitiveFirst ==
    <<"_generate_basic_primitive", "_generate_with_reference_analysis",
      "_generate_with_procedural">>

\* methods = [...]
Methods ==
    <<"_generate_with_reference_analysis", "_generate_with_procedural",
      "_generate_basic_primitive">>

\* for method in methods: try: ... except Exception: ... continue
RECURSIVE TryMethods(_, _, _, _, _, _)
TryMethods(ms, w, prompt, model_type, raises, outcome) ==
    IF ms = <<>>
    THEN Return(w, "generate_model_from_text", "None")
    ELSE LET r == Method(Head(ms), w, prompt, model_type, Head(ms) \in raises)
         IN  IF r.ret \notin {"None", "raised"}
             THEN Return(IF r.w.reference_image_path # "none"
                         THEN SetupReferenceImage(r.w, outcome)
                         ELSE r.w,
                         "generate_model_from_text", r.ret)
             ELSE TryMethods(Tail(ms), r.w, prompt, model_type, raises,
                             outcome)

\* reference_image: "absent" (None), "missing" (names no file), "exists"
\* raises: the methods in which a host operation raises
\* outcome: how _setup_reference_image ends, if it is called
GenerateModelFromText(w, prompt, model_type, reference_image, raises, outcome) ==
    TryMethods(Methods,
               IF reference_image = "exists"
               THEN [w EXCEPT !.reference_image_path = "set"]
               ELSE w,
               prompt, model_type, raises, outcome)

\* the state a call leaves
Commit(w) ==
    /\ imported_objects' = w.imported_objects
    /\ reference_plane' = w.reference_plane
    /\ reference_image_path' = w.reference_image_path
    /\ camera' = w.camera
    /\ last' = w.last
    /\ result' = w.result
    /\ earlier' = (earlier \/ last.placed)

SetupIsCalled(w) ==
    \E k \in DOMAIN w.calls : w.calls[k].fn = "_setup_reference_image"

GenerateModelFromTextCall(prompt, model_type, reference_image, raises, outcome) ==
    /\ script = "smart"
    /\ run.n < MaxCalls
    /\ IF reference_image = "exists" THEN TRUE
       ELSE IF reference_image_path = "set" THEN TRUE
       ELSE outcome = "ok"
    /\ LET r == GenerateModelFromText(World("generate"), prompt, model_type,
                                      reference_image, raises, outcome)
       IN  /\ IF SetupIsCalled(r.w) THEN TRUE ELSE outcome = "ok"
           /\ Commit(r.w)
           /\ run' = [fn |-> "generate_model_from_text",
                      prompt |-> prompt, model_type |-> model_type,
                      reference_image |-> reference_image,
                      raises |-> raises,
                      calls |-> r.w.calls, ret |-> r.ret, n |-> run.n + 1]
    /\ UNCHANGED <<script, host, threads>>

\* what the host makes of a generated shape
GenHost ==
    <<[type |-> "MESH",
       verts |-> << <<-FP, -FP, -FP>>, <<2 * FP, -FP, 2 * FP>> >>]>>

GenInit ==
    /\ script = "smart"
    /\ host = GenHost
    /\ imported_objects = <<>>
    /\ reference_plane = NoPlane
    /\ reference_image_path = "none"
    /\ camera = DefaultCamera
    /\ last = Idle("init")
    /\ earlier = FALSE
    /\ result = Outcome("None", {})
    /\ run = NoRun
    /\ threads = NoThreads

\* the host fails in the first `failures` methods (in those that get as
\* far as a host operation); a failure in a method that is not called has
\* no effect
GenNext ==
    \E prompt \in Prompts, model_type \in ModelTypes,
       reference_image \in {"absent", "missing", "exists"},
       failures \in 0..Len(Methods),
       outcome \in {"ok", "load_failed", "file_gone"} :
           GenerateModelFromTextCall(prompt, model_type, reference_image,
                                     {Methods[k] : k \in 1..failures},
                                     outcome)

GenSpec == GenInit /\ [][GenNext]_vars

---------------------------------------------------------------------------
(* _position_reference_plane called several times on one instance, on the   *)
(* objects the scene holds at each call.                                    *)

\* the scenes of the calls: one mesh of two vertices, or a curve only
PlaneScenes ==
    {<<[type |-> "MESH", verts |-> <<a, b>>]>> :
         a \in {<<-FP, -FP, -FP>>, Zero3}, b \in Points}
    \cup {<<Curve>>}

\* _position_reference_plane of the script that runs
PositionReferencePlane(plane, objs) ==
    IF script = "smart"
    THEN SmartPositionReferencePlane(plane, objs)
    ELSE UbuntuPositionReferencePlane(plane, objs)

\* what a call read and where it left the plane
Placement(r) ==
    [fn |-> "_position_reference_plane",
     ret |-> OutcomeOf(r.trace, TRUE).ret,
     placed |-> r.trace.placed,
     min_coords |-> r.trace.min_coords,
     max_coords |-> r.trace.max_coords,
     location |-> r.plane.location]

Positioned(objs, r) ==
    /\ imported_objects' = objs
    /\ host' = objs
    /\ reference_plane' = r.plane
    /\ last' = r.trace
    /\ result' = OutcomeOf(r.trace, TRUE)
    /\ earlier' = (earlier \/ last.placed)
    /\ run' = [fn |-> "_position_reference_plane",
               calls |-> Append(run.calls, Placement(r)),
               ret |-> OutcomeOf(r.trace, TRUE).ret, n |-> run.n + 1]

PositionReferencePlaneCall(objs) ==
    /\ run.n < MaxCalls
    /\ Positioned(objs, PositionReferencePlane(reference_plane, objs))
    /\ UNCHANGED <<script, reference_image_path, camera, threads>>

\* an instance whose reference plane has been created
PlaneInit ==
    /\ script \in {"smart", "ubuntu"}
    /\ host = <<>>
    /\ imported_objects = <<>>
    /\ reference_plane = IF script = "smart" THEN SmartNewPlane
                         ELSE UbuntuNewPlane
    /\ reference_image_path = "set"
    /\ camera = DefaultCamera
    /\ last = Idle("init")
    /\ earlier = FALSE
    /\ result = Outcome("None", {})
    /\ run = NoRun
    /\ threads = NoThreads

PlaneNext == \E objs \in PlaneScenes : PositionReferencePlaneCall(objs)

PlaneSpec == PlaneInit /\ [][PlaneNext]_vars

---------------------------------------------------------------------------
(* The pipeline functions and the command-line mains, each run once: a      *)
(* process runs main once, and a pipeline function is called on a newly     *)
(* constructed instance.                                                    *)

\* render_smart_preview inside a pipeline: the camera placement c, then the
\* render
RenderSmartPreview(w, c, rendered) ==
    Called([w EXCEPT !.camera = c.camera,
                     !.last = c.trace,
                     !.result = OutcomeOf(c.trace, rendered)],
           "render_smart_preview", OutcomeOf(c.trace, rendered).ret)

\* generate_and_process from the save on
\*   saved:    bpy.ops.wm.save_as_mainfile does not raise
\*   rendered: bpy.ops.render.render does not raise
SaveAndRender(m, saved, rendered) ==
    IF ~saved
    THEN Return(Called(m, "save_as_mainfile", "raised"),
                "generate_and_process", "raised")
    ELSE Return(RenderSmartPreview(
                    Called(m, "save_as_mainfile", "FINISHED"),
                    SmartCameraPlacement(m.camera, m.imported_objects),
                    rendered),
                "generate_and_process", "True")

\* generate_and_process after generate_model_from_text has returned g
Process(g, saved, rendered) ==
    IF g.ret = "None"
    THEN Return(g.w, "generate_and_process", "False")
    ELSE SaveAndRender(Called(g.w, "apply_smart_materials", "None"),
                       saved, rendered)

\* SmartBlendAI.generate_and_process
GenerateAndProcess(w, prompt, reference_image, raises, outcome, saved, rendered) ==
    Process(GenerateModelFromText(w, prompt, "auto", reference_image,
                                  raises, outcome),
            saved, rendered)

\* variant: every run exits with status 0
ExitStatusZero(ret) == 0

\* sys.exit(0 if success else 1); an exception that leaves main ends the
\* interpreter with status 1
ExitStatus(ret) == IF ret = "True" THEN 0 ELSE 1

\* sys.exit(status)
Exit(w, status) ==
    [w |-> Called(w, "sys.exit", "None"), ret |-> "None", exit |-> status]

\* success = pipeline(); sys.exit(0 if success else 1): an exception of the
\* pipeline leaves main before its sys.exit
ExitWith(p) ==
    IF p.ret = "raised"
    THEN [w |-> p.w, ret |-> "raised", exit |-> ExitStatus(p.ret)]
    ELSE Exit(p.w, ExitStatus(p.ret))

\* the fields of a newly constructed instance, in the scene as it is
Constructed(w, class, path) ==
    Called([w EXCEPT !.imported_objects = <<>>,
                     !.reference_image_path = path,
                     !.reference_plane = NoPlane],
           class, "None")

\* main of BlendAI_Smart.py
SmartMainRun(w, args, raises, outcome, saved, rendered) ==
    IF args.reference = "missing"
    THEN Exit(w, 1)
    ELSE ExitWith(GenerateAndProcess(
                      Constructed(w, "SmartBlendAI", "none"),
                      args.prompt, args.reference, raises, outcome, saved,
                      rendered))

\* clear_scene(keep_camera_light=True): everything but cameras and lights
\* is deleted
ClearScene(w) ==
    Called([w EXCEPT !.reference_plane = Removed(@)], "clear_scene", "None")

Traced(w, fn, trace, ret) ==
    Return([w EXCEPT !.last = trace, !.result = OutcomeOf(trace, TRUE)],
           fn, ret)

\* import_model
ImportModel(w, imported) ==
    IF imported /\ host # <<>>
    THEN Traced([w EXCEPT !.imported_objects = host], "import_model",
                Idle("import"), "True")
    ELSE Traced([w EXCEPT !.imported_objects = IF imported THEN host ELSE @],
                "import_model", Failed("import", <<>>), "False")

PlaneSet(w, r) ==
    Traced([w EXCEPT !.reference_plane = r.plane], "setup_reference_image",
           r.trace,
           IF r.trace.op = "ubuntu_position" /\ r.trace.err = "none"
           THEN "True" ELSE "False")

\* setup_reference_image
SetupReference(w, how, loaded) ==
    PlaneSet(w, UbuntuSetupResult(w.reference_plane, w.imported_objects, how,
                                  loaded))

\* save_result, export_fbx, render_preview: True, or False when the host
\* operation raises (failing)
Step(w, fn, failing) ==
    Return(w, fn, IF fn \in failing THEN "False" ELSE "True")

\* variant: success = step()
AccumulateLast(success, ret) == ret = "True"

\* success &= step()
Accumulate(success, ret) == success /\ ret = "True"

\* success = True; if enabled: success &= step()
RECURSIVE Outputs(_, _, _, _, _)
Outputs(w, steps, enabled, failing, success) ==
    IF steps = <<>>
    THEN Return(w, "run_complete_setup", IF success THEN "True" ELSE "False")
    ELSE IF Head(steps) \in enabled
    THEN Outputs(Step(w, Head(steps), failing).w, Tail(steps), enabled,
                 failing,
                 Accumulate(success, Step(w, Head(steps), failing).ret))
    ELSE Outputs(w, Tail(steps), enabled, failing, success)

\* variant: the pipeline goes on after a failed step
AbortsNever(ret) == FALSE

\* if not self.validate_files(): return False
\* if not self.import_model(): return False
Aborts(ret) == ret # "True"

\* run_complete_setup after import_model has returned i
\*   enabled:  the output steps save_blend, export_fbx, render_preview ask for
AfterImport(i, how, loaded, enabled, failing) ==
    IF Aborts(i.ret)
    THEN Return(i.w, "run_complete_setup", "False")
    ELSE Outputs(Called(Called(SetupReference(i.w, how, loaded).w,
                               "apply_materials_intelligently", "None"),
                        "setup_optimal_viewport", "None"),
                 <<"save_result", "export_fbx", "render_preview">>,
                 enabled, failing, TRUE)

\* run_complete_setup after validate_files has returned v
AfterValidate(v, imported, how, loaded, enabled, failing) ==
    IF Aborts(v.ret)
    THEN Return(v.w, "run_complete_setup", "False")
    ELSE AfterImport(ImportModel(ClearScene(v.w), imported), how, loaded,
                     enabled, failing)

\* BlendAISetup.run_complete_setup
\*   valid:    validate_files finds both files
RunCompleteSetup(w, valid, imported, how, loaded, enabled, failing) ==
    AfterValidate(Return(w, "validate_files",
                         IF valid THEN "True" ELSE "False"),
                  imported, how, loaded, enabled, failing)

\* main of BlendAI_Ubuntu.py
UbuntuMainRun(w, valid, imported, how, loaded, enabled, failing) ==
    ExitWith(RunCompleteSetup(Constructed(w, "BlendAISetup", "set"), valid,
                              imported, how, loaded, enabled, failing))

SmartArgs ==
    [prompt : Prompts, type : ModelTypes,
     reference : {"absent", "missing", "exists"}]

OutputSteps == {"save_result", "export_fbx", "render_preview"}

\* the run r of fn on inputs in becomes the state
Ran(fn, in, r, exit) ==
    /\ Commit(r.w)
    /\ run' = [fn |-> fn, in |-> in, calls |-> r.w.calls, ret |-> r.ret,
               exit |-> exit, n |-> run.n + 1]
    /\ UNCHANGED <<script, host, threads>>

\* a run in which _setup_reference_image is not reached has no outcome of it
Reaches(r, outcome) == IF SetupIsCalled(r.w) THEN TRUE ELSE outcome = "ok"

RanSmart(fn, in, r, exit) == Reaches(r, in.outcome) /\ Ran(fn, in, r, exit)

RanMain(in, r) == Ran("main", in, r, r.exit)

RanSmartMain(in, r) == RanSmart("main", in, r, r.exit)

GenerateAndProcessCall(prompt, reference_image, raises, outcome, saved, rendered) ==
    /\ script = "smart" /\ run.fn = "none"
    /\ RanSmart("generate_and_process",
                [prompt |-> prompt, reference_image |-> reference_image,
                 raises |-> raises, outcome |-> outcome, saved |-> saved,
                 rendered |-> rendered],
                GenerateAndProcess(World("generate_and_process"), prompt,
                                   reference_image, raises, outcome, saved,
                                   rendered),
                "none")

SmartMain(args, raises, outcome, saved, rendered) ==
    /\ script = "smart" /\ run.fn = "none"
    /\ RanSmartMain([args |-> args, raises |-> raises, outcome |-> outcome,
                     saved |-> saved, rendered |-> rendered],
                    SmartMainRun(World("main"), args, raises, outcome, saved,
                                 rendered))

RunCompleteSetupCall(valid, imported, how, loaded, enabled, failing) ==
    /\ script = "ubuntu" /\ run.fn = "none"
    /\ how = "none" => loaded
    /\ Ran("run_complete_setup",
           [valid |-> valid, imported |-> imported, enabled |-> enabled,
            failing |-> failing],
           RunCompleteSetup(World("run_complete_setup"), valid, imported,
                            how, loaded, enabled, failing),
           "none")

UbuntuMain(valid, imported, how, loaded, enabled, failing) ==
    /\ script = "ubuntu" /\ run.fn = "none"
    /\ how = "none" => loaded
    /\ RanMain([valid |-> valid, imported |-> imported, enabled |-> enabled,
                failing |-> failing],
               UbuntuMainRun(World("main"), valid, imported, how, loaded,
                             enabled, failing))

PipeInit ==
    /\ script \in {"smart", "ubuntu"}
    /\ host \in IF script = "smart" THEN {GenHost, <<Curve>>}
                ELSE {GenHost, <<Curve>>, <<>>}
    /\ imported_objects = <<>>
    /\ reference_plane = NoPlane
    /\ reference_image_path = IF script = "smart" THEN "none" ELSE "set"
    /\ camera = DefaultCamera
    /\ last = Idle("init")
    /\ earlier = FALSE
    /\ result = Outcome("None", {})
    /\ run = NoRun
    /\ threads = NoThreads

PipeNext ==
    \/ \E prompt \in Prompts,
          reference_image \in {"absent", "missing", "exists"},
          failures \in 0..Len(Methods),
          outcome \in {"ok", "load_failed", "file_gone"},
          saved \in BOOLEAN, rendered \in BOOLEAN :
              GenerateAndProcessCall(prompt, reference_image,
                                     {Methods[k] : k \in 1..failures},
                                     outcome, saved, rendered)
    \/ \E args \in SmartArgs, failures \in 0..Len(Methods),
          outcome \in {"ok", "load_failed", "file_gone"},
          saved \in BOOLEAN, rendered \in BOOLEAN :
              SmartMain(args, {Methods[k] : k \in 1..failures}, outcome,
                        saved, rendered)
    \/ \E valid \in BOOLEAN, imported \in BOOLEAN,
          how \in {"addon", "none", "manual"}, loaded \in BOOLEAN,
          enabled \in SUBSET OutputSteps, failing \in SUBSET OutputSteps :
              RunCompleteSetupCall(valid, imported, how, loaded, enabled,
                                   failing)
    \/ \E valid \in BOOLEAN, imported \in BOOLEAN,
          how \in {"addon", "none", "manual"}, loaded \in BOOLEAN,
          enabled \in SUBSET OutputSteps, failing \in SUBSET OutputSteps :
              UbuntuMain(valid, imported, how, loaded, enabled, failing)

PipeSpec == PipeInit /\ [][PipeNext]_vars

---------------------------------------------------------------------------
(* Properties *)

PlacementOps == {"smart_position", "ubuntu_position", "render"}
CenterOps    == {"smart_position", "render"}

\* the most recent call was a placement routine that collected points
Computed(ops) == last.op \in ops /\ last.coords # <<>>

Range(f) == {f[k] : k \in DOMAIN f}

\* the mesh vertices of the tracked objects, as a set
MeshPoints(objs) ==
    UNION {IF objs[j].type = "MESH" THEN Range(objs[j].verts) ELSE {}
           : j \in DOMAIN objs}

\* the largest component of a vector
MaxExtent(v) == CHOOSE m \in {v[1], v[2], v[3]} : \A i \in 1..3 : v[i] <= m

\* all points of a non-empty sequence coincide
AllSame(coords) == coords # <<>> /\ \A k \in DOMAIN coords : coords[k] = coords[1]

\* the sequences of n naturals that add up to d
RECURSIVE Combos(_, _)
Combos(n, d) ==
    IF n = 0 THEN (IF d = 0 THEN {<<>>} ELSE {})
    ELSE UNION {{<<w>> \o r : r \in Combos(n - 1, d - w)} : w \in 0..d}

\* weights in 24ths, for 1 to 3 points
Weights == [n \in 1..3 |-> Combos(n, 24)]

RECURSIVE Dot(_, _, _)
\* the sum of w[k] * coords[k][i] over k
Dot(w, coords, i) ==
    IF w = <<>> THEN 0
    ELSE Head(w) * Head(coords)[i] + Dot(Tail(w), Tail(coords), i)

\* c is a convex combination of the points of coords (at most 3 points)
InHull(c, coords) ==
    \E w \in Weights[Len(coords)] :
        \A i \in 1..3 : 24 * c[i] = Dot(w, coords, i)

\* a plane with normal n has c strictly on one side and every point of
\* coords on the other: c is outside the convex hull
Separated(c, coords) ==
    \E n \in {-1, 0, 1} \X {-1, 0, 1} \X {-1, 0, 1} :
        \A k \in DOMAIN coords :
            n[1] * coords[k][1] + n[2] * coords[k][2] + n[3] * coords[k][3]
              < n[1] * c[1] + n[2] * c[2] + n[3] * c[3]

(* C1: for a non-empty sequence of mesh points the bounding box is computed *)
(* and is exact: the points are the mesh vertices of the tracked objects,   *)
(* every point lies between min and max on each axis, and each of the six   *)
(* bounds is the coordinate of some point.                                  *)
C1_BoundingBoxExact ==
    Computed(PlacementOps) =>
        /\ last.placed
        /\ Range(last.coords) = MeshPoints(imported_objects)
        /\ \A i \in 1..3 :
              /\ \A k \in DOMAIN last.coords :
                    /\ last.min_coords[i] <= last.coords[k][i]
                    /\ last.coords[k][i] <= last.max_coords[i]
              /\ \E k \in DOMAIN last.coords :
                    last.coords[k][i] = last.min_coords[i]
              /\ \E k \in DOMAIN last.coords :
                    last.coords[k][i] = last.max_coords[i]

C1_Witness ==
    /\ last.op = "ubuntu_position" /\ last.placed
    /\ Len(imported_objects) = 2 /\ Len(last.coords) = 2
    /\ \A i \in 1..3 : last.min_coords[i] < last.max_coords[i]

(* C2: for a non-empty point set min <= max on every axis, so max - min is  *)
(* >= 0 on every axis, and the size the Smart routines compute is max - min *)
(* with no negative component.                                              *)
C2_MinLeMax ==
    Computed(PlacementOps) =>
        \A i \in 1..3 :
            /\ last.min_coords[i] <= last.max_coords[i]
            /\ last.max_coords[i] - last.min_coords[i] >= 0
            /\ last.op \in CenterOps =>
                  /\ last.size[i] = last.max_coords[i] - last.min_coords[i]
                  /\ last.size[i] >= 0

C2_Witness ==
    /\ last.op = "smart_position" /\ last.placed
    /\ last.size[1] > 0 /\ last.size[2] = 0 /\ last.size[3] > 0

(* C3, as the claim states it: a placement over an empty point sequence     *)
(* ends with an error that is propagated to the caller.                     *)
C3_EmptyInputRaises ==
    (last.op \in PlacementOps /\ last.coords = <<>>) => last.err = "propagated"

(* C3, amended: a placement over an empty point sequence raises nothing: it *)
(* computes no box and ends normally without placing anything.              *)
C3_EmptyInputSkipped ==
    (last.op \in PlacementOps /\ last.coords = <<>>) =>
        /\ last.err = "none"
        /\ ~last.placed
        /\ last.min_coords = Zero3 /\ last.max_coords = Zero3

C3_Witness ==
    /\ last.op \in PlacementOps /\ last.coords = <<>>
    /\ imported_objects # <<>>
    /\ \E j \in DOMAIN imported_objects : imported_objects[j].type = "MESH"

(* C4: in the Smart plane placement and in the camera placement the center  *)
(* is the component-wise average of the min and max corners.                *)
C4_CenterIsMidpoint ==
    Computed(CenterOps) =>
        \A i \in 1..3 : 2 * last.center[i] = last.min_coords[i] + last.max_coords[i]

C4_Witness ==
    /\ last.op = "render" /\ last.placed
    /\ last.min_coords[1] < last.max_coords[1]
    /\ last.center # Zero3

(* C5: after SmartBlendAI._position_reference_plane on a non-empty point set *)
(* the plane is at X = center.x + 1.5 * maxExtent and Z = center.z, and its  *)
(* Y is the 0 of the newly created plane.                                    *)
C5_SmartPlanePosition ==
    Computed({"smart_position"}) =>
        /\ reference_plane.state = "live"
        /\ FP * reference_plane.location[1] =
               FP * last.center[1] + 15 * MaxExtent(last.size)
        /\ reference_plane.location[3] = last.center[3]
        /\ reference_plane.location[2] = 0

C5_Witness ==
    /\ last.op = "smart_position" /\ last.placed
    /\ last.size[1] = 0 /\ MaxExtent(last.size) > 0
    /\ last.center[3] # 0

(* C6: after the Smart plane placement the plane's X and Y scale are equal, *)
(* are 0.8 * maxExtent, are >= 0, and are 0 exactly when all points         *)
(* coincide.                                                                *)
C6_SmartPlaneScale ==
    Computed({"smart_position"}) =>
        /\ reference_plane.scale[1] = reference_plane.scale[2]
        /\ FP * reference_plane.scale[1] = 8 * MaxExtent(last.size)
        /\ reference_plane.scale[1] >= 0
        /\ (reference_plane.scale[1] = 0) <=> AllSame(last.coords)

C6_Witness ==
    /\ last.op = "smart_position" /\ last.placed
    /\ reference_plane.scale[1] > 0 /\ last.size[1] = 0

(* C7: for a non-empty point set render_smart_preview puts the camera at    *)
(* center + (distance, -distance, 0.5 * distance), distance = 2 * maxExtent. *)
C7_CameraPosition ==
    Computed({"render"}) =>
        LET distance == 2 * MaxExtent(last.size) IN
        /\ camera.exists
        /\ camera.location[1] = last.center[1] + distance
        /\ camera.location[2] = last.center[2] - distance
        /\ 2 * camera.location[3] = 2 * last.center[3] + distance

C7_Witness ==
    /\ last.op = "render" /\ last.placed
    /\ MaxExtent(last.size) > 0 /\ last.size[1] = 0
    /\ last.center[2] # 0

(* C8: when maxExtent > 0 the vector from the camera to the center is a     *)
(* positive multiple of (-1, 1, -0.5), whatever the box, and the camera is  *)
(* turned to look along it.                                                 *)
C8_FramingAngle ==
    (Computed({"render"}) /\ MaxExtent(last.size) > 0) =>
        LET d == VSub(last.center, camera.location) IN
        /\ d[1] < 0
        /\ d[2] = -d[1]
        /\ 2 * d[3] = d[1]
        /\ camera.rotation = <<-2, 2, -1>>

C8_Witness ==
    /\ last.op = "render" /\ last.placed
    /\ MaxExtent(last.size) > 0
    /\ last.center[1] # last.center[2]

(* C9: when all points coincide the placement runs to its end without an    *)
(* error: min = max = the point, size is zero, the plane's offset and scale *)
(* are 0 and the camera is at the center.                                   *)
C9_Degenerate ==
    (last.op \in PlacementOps /\ AllSame(last.coords)) =>
        /\ last.placed /\ last.err = "none"
        /\ last.min_coords = last.coords[1]
        /\ last.max_coords = last.coords[1]
        /\ last.op \in CenterOps =>
              last.size = Zero3 /\ last.center = last.coords[1]
        /\ last.op = "smart_position" =>
              /\ reference_plane.location[1] = last.center[1]
              /\ reference_plane.scale[1] = 0
        /\ last.op = "render" =>
              camera.exists /\ camera.location = last.center

C9_Witness ==
    /\ last.op = "render" /\ AllSame(last.coords) /\ Len(last.coords) = 2
    /\ camera.location = last.coords[1]

(* C10: whatever was placed before, the plane and the camera a placement    *)
(* produces for the tracked objects are those the same routine produces on  *)
(* the newly created plane and on the camera of the startup scene.          *)
C10_HistoryIndependent ==
    /\ Computed({"render"}) =>
          LET fresh == SmartCameraPlacement(DefaultCamera, imported_objects)
          IN  camera = fresh.camera /\ last = fresh.trace
    /\ Computed({"smart_position"}) =>
          LET fresh == SmartPositionReferencePlane(SmartNewPlane,
                                                   imported_objects)
          IN  reference_plane = fresh.plane /\ last = fresh.trace
    /\ Computed({"ubuntu_position"}) =>
          LET fresh == UbuntuPositionReferencePlane(UbuntuNewPlane,
                                                    imported_objects)
          IN  reference_plane = fresh.plane /\ last = fresh.trace

C10_Witness ==
    /\ last.op = "render" /\ last.placed /\ earlier
    /\ imported_objects = <<Cube>>
    /\ reference_plane.state = "removed"

C12_Scenario ==
    (Computed(CenterOps) /\ Range(last.coords) = ScenarioPoints) =>
        /\ last.min_coords = <<0, 0, 0>>
        /\ last.max_coords = <<20, 0, 40>>
        /\ last.center = <<10, 0, 20>>
        /\ last.size = <<20, 0, 40>>
        /\ MaxExtent(last.size) = 40
        /\ last.op = "smart_position" =>
              /\ reference_plane.location = <<70, 0, 20>>
              /\ reference_plane.scale = <<32, 32, FP>>
        /\ last.op = "render" =>
              /\ camera.location[1] - last.center[1] = 80
              /\ camera.location = <<90, -80, 60>>

C12_Witness ==
    /\ last.op = "render" /\ Range(last.coords) = ScenarioPoints
    /\ camera.exists /\ camera.location[3] = 60
    /\ reference_plane.state = "live" /\ reference_plane.location[1] = 70

(* C13: a placement that finds no mesh vertices, or no tracked objects, is  *)
(* skipped silently: no exception is raised, the plane placement logs      *)
(* nothing and the plane keeps the location and scale it was created with,  *)
(* and render_smart_preview leaves the camera and the plane as they were.   *)
C13_SkipLeavesPlacement ==
    [][ (last'.op \in PlacementOps /\ last'.coords = <<>>) =>
            /\ last'.err = "none" /\ ~last'.placed
            /\ last'.op # "render" =>
                  result'.ret # "raised" /\ result'.log = {}
            /\ last'.op = "render" =>
                  camera' = camera /\ reference_plane' = reference_plane
            /\ last'.op = "smart_position" =>
                  /\ reference_plane'.location = <<PLANE_X0, 0, 0>>
                  /\ reference_plane'.scale = One3
            /\ last'.op = "ubuntu_position" =>
                  /\ reference_plane'.location = Zero3
                  /\ reference_plane'.scale = One3
                  /\ camera' = camera
      ]_vars

C13_Witness ==
    /\ last.op = "smart_position" /\ last.coords = <<>>
    /\ imported_objects # <<>>
    /\ reference_plane = SmartNewPlane

\* the routine logged and returned False / returned None and logged nothing
LogsAndReturnsFalse(o)  == o.ret = "False" /\ o.log # {}
ReturnsNoneSilently(o)  == o.ret = "None" /\ o.log = {}

\* what the plane placement of the other script returns and logs for the
\* same tracked objects
OtherScript(objs) ==
    IF script = "smart"
    THEN UbuntuPositionOutcome(
             UbuntuPositionReferencePlane(UbuntuNewPlane, objs).trace)
    ELSE SmartPositionOutcome(
             SmartPositionReferencePlane(SmartNewPlane, objs).trace)

(* C14, as the claim states it: without mesh vertices the placement step of *)
(* one script logs and returns False and that of the other returns None     *)
(* without logging.                                                         *)
C14_HandledDifferently ==
    (last.op \in PlacementOps /\ last.coords = <<>>) =>
        \/ LogsAndReturnsFalse(result)
              /\ ReturnsNoneSilently(OtherScript(imported_objects))
        \/ ReturnsNoneSilently(result)
              /\ LogsAndReturnsFalse(OtherScript(imported_objects))

(* C14, amended: without mesh vertices both scripts' plane placement        *)
(* returns None and logs nothing, alike; render_smart_preview goes on to    *)
(* the render and returns its result, True with an info message or False    *)
(* with the handler's error message.                                        *)
C14_SkipHandledAlike ==
    (last.op \in PlacementOps /\ last.coords = <<>>) =>
        /\ last.op \in {"smart_position", "ubuntu_position"} =>
              /\ ReturnsNoneSilently(result)
              /\ ReturnsNoneSilently(OtherScript(imported_objects))
        /\ last.op = "render" =>
              result \in {Outcome("True", {"info"}), Outcome("False", {"error"})}

C14_Witness ==
    /\ last.op = "ubuntu_position" /\ last.coords = <<>>
    /\ imported_objects # <<>>
    /\ result = Outcome("None", {})

(* C15, as the claim states it: of two invocations that run interleaved,    *)
(* each on its own objects, each gives the camera the location and the      *)
(* rotation it gives it when it runs alone.                                 *)
C15_InterleavingInvisible ==
    \A t \in DOMAIN threads :
        (threads[t].pc = "done" /\ HasCoords(AllCoords(threads[t].objs))) =>
            LET alone == SmartCameraPlacement(DefaultCamera, threads[t].objs)
            IN  /\ threads[t].location = alone.camera.location
                /\ threads[t].rotation = alone.camera.rotation

\* an invocation read back the location the other one had assigned
C15_Witness ==
    /\ \A t \in DOMAIN threads : threads[t].pc = "done"
    /\ \E t \in DOMAIN threads :
          /\ threads[t].distance > 0
          /\ threads[t].rotation # <<-2, 2, -1>>

\* the calls of the generation methods among the calls of a run, in order
MethodCalls(calls) ==
    SelectSeq(calls, LAMBDA c : c.fn \in Range(Methods))

\* a method failed: it returned nothing or raised
MethodFailed(c) == c.ret \in {"None", "raised"}

(* C16, as the claim states it: for a prompt with 'sword', 'blade' or       *)
(* 'weapon', no reference image and no failure of the host,                 *)
(* generate_model_from_text returns a sword model made by the procedural    *)
(* method.                                                                  *)
C16_SwordIsProcedural ==
    (/\ run.fn = "generate_model_from_text"
     /\ AnyWord(run.prompt, {"sword", "blade", "weapon"})
     /\ run.reference_image = "absent" /\ reference_image_path = "none"
     /\ run.raises = {}) =>
        /\ run.ret = "_create_procedural_sword"
        /\ \E k \in DOMAIN run.calls :
              run.calls[k] = [fn |-> "_generate_with_procedural",
                              ret |-> run.ret]

\* the sword prompt ends with the primitive cube of the fallback method
C16_Witness ==
    /\ run.fn = "generate_model_from_text" /\ run.prompt = {"sword"}
    /\ run.reference_image = "absent" /\ reference_image_path = "none"
    /\ run.raises = {}
    /\ run.ret = "_create_procedural_generic"
    /\ imported_objects = <<Cube>>
    /\ [fn |-> "_generate_with_procedural", ret |-> "raised"]
           \in Range(run.calls)

\* the generators that make the kind of model a type hint names
HintGenerators ==
    [character |-> {"_create_reference_guided_character",
                    "_create_procedural_human"},
     weapon    |-> {"_create_reference_guided_sword",
                    "_create_procedural_sword"},
     building  |-> {"_create_reference_guided_building",
                    "_create_procedural_building"}]

(* C17, as the claim states it: with a 'character', 'weapon' or 'building'  *)
(* type hint, and no failure of the host, the model is made by a generator  *)
(* of that kind.                                                            *)
C17_HintSelectsGenerator ==
    (/\ run.fn = "generate_model_from_text"
     /\ run.model_type # "auto"
     /\ run.raises = {}) =>
        run.ret \in HintGenerators[run.model_type]

\* a building is made although the hint says character
C17_Witness ==
    /\ run.fn = "generate_model_from_text"
    /\ run.model_type = "character" /\ run.prompt = {"castle"}
    /\ run.raises = {}
    /\ run.ret = "_create_procedural_building"

\* the order the claim fixes
FixedOrder ==
    <<"_generate_with_reference_analysis", "_generate_with_procedural",
      "_generate_basic_primitive">>

---------------------------------------------------------------------------
(* The pipelines and the mains                                              *)

Invoked(fn) == \E k \in 1..Len(run.calls) : run.calls[k].fn = fn

Returned(fn, ret) ==
    \E k \in 1..Len(run.calls) :
        run.calls[k].fn = fn /\ run.calls[k].ret = ret

PipelineReturnedTrue ==
    \/ Returned("generate_and_process", "True")
    \/ Returned("run_complete_setup", "True")

SceneSteps ==
    {"clear_scene", "import_model", "setup_reference_image",
     "apply_materials_intelligently", "setup_optimal_viewport",
     "save_result", "export_fbx", "render_preview"}

\* C20: run_complete_setup returns False without any scene operation when
\* validate_files fails, and returns False without reference setup, material
\* application, save, export or render when import_model fails.
C20_EarlyAbort ==
    (script = "ubuntu" /\ run.fn # "none") =>
        /\ Returned("validate_files", "False") =>
               /\ Returned("run_complete_setup", "False")
               /\ \A fn \in SceneSteps : ~Invoked(fn)
               /\ imported_objects = <<>> /\ reference_plane = NoPlane
        /\ Returned("import_model", "False") =>
               /\ Returned("run_complete_setup", "False")
               /\ \A fn \in SceneSteps \ {"clear_scene", "import_model"} :
                      ~Invoked(fn)
               /\ reference_plane = NoPlane

C20_Witness ==
    /\ run.fn = "run_complete_setup" /\ run.ret = "False"
    /\ Invoked("clear_scene")
    /\ Returned("import_model", "False")
    /\ run.in.enabled = OutputSteps

\* how often fn was called in the run
Times(fn) == Cardinality({k \in 1..Len(run.calls) : run.calls[k].fn = fn})

C22_TrueMeansAllStagesSucceeded ==
    Returned("generate_and_process", "True") =>
        /\ \E k \in 1..Len(run.calls) :
               /\ run.calls[k].fn \in Range(Methods)
               /\ ~MethodFailed(run.calls[k])
        /\ Returned("apply_smart_materials", "None")
        /\ Returned("save_as_mainfile", "FINISHED")
        /\ Returned("render_smart_preview", "True")

\* the render failed and the pipeline reports success
C22_Witness ==
    /\ run.fn = "main" /\ run.exit = 0
    /\ Returned("generate_and_process", "True")
    /\ Returned("save_as_mainfile", "FINISHED")
    /\ Returned("render_smart_preview", "False")
    /\ "error" \in result.log

(* C23, as the claim states it: a call of generate_model_from_text whose    *)
(* reference_image is absent or names no file gets nothing from reference   *)
(* analysis, calls no reference-guided generator and sets up no reference   *)
(* plane, whatever the calls before it on the same instance passed.  The    *)
(* code keeps self.reference_image_path from an earlier call.               *)
C23_ReferenceIsPerCall ==
    (/\ run.fn = "generate_model_from_text"
     /\ run.reference_image \in {"absent", "missing"}) =>
        /\ Returned("_generate_with_reference_analysis", "None")
        /\ \A g \in Range(ReferenceGenerator) : ~Invoked(g)
        /\ ~Invoked("_setup_reference_image")

\* the second call passes no reference image and is guided by the image of
\* the first one, whose plane it adds to the scene
C23_Witness ==
    /\ run.fn = "generate_model_from_text" /\ run.n = 2
    /\ run.reference_image = "absent"
    /\ run.ret \in Range(ReferenceGenerator)
    /\ Returned("_setup_reference_image", "True")
    /\ reference_plane.state = "live"
    /\ last.op = "smart_position" /\ last.placed

---------------------------------------------------------------------------
(* The plane's position against the calculator's rule                       *)

\* the multipliers tried: 0.0, 0.1, ... 3.0
Multipliers == 0..(3 * FP)

\* the calculator's rule for the plane, with offsetMultiplier k (in units of
\* 1/FP): x = center.x + maxExtent * k, z = center.z
FollowsRule(c, k) ==
    LET center == Center(c.min_coords, c.max_coords)
        size   == Size(c.min_coords, c.max_coords)
    IN  /\ FP * (c.location[1] - center[1]) = Max3(size) * k
        /\ c.location[3] = center[3]

OneMultiplier ==
    \E k \in Multipliers :
        \A i \in 1..Len(run.calls) :
            run.calls[i].placed => FollowsRule(run.calls[i], k)

(* C24, as the claim states it: there is one offsetMultiplier with which    *)
(* every placement BlendAISetup._position_reference_plane makes puts the    *)
(* plane at x = center.x + maxExtent * offsetMultiplier and z = center.z.   *)
(* The code offsets by the width along X, not by the largest extent.        *)
C24_UbuntuFollowsCalculator ==
    (script = "ubuntu" /\ run.fn = "_position_reference_plane") =>
        OneMultiplier

\* two placements by BlendAISetup: a box that is widest along X, which the
\* rule fits only with multiplier 1, and a box that is not, which it fits
\* only with another
C24_Witness ==
    /\ script = "ubuntu" /\ run.fn = "_position_reference_plane"
    /\ Len(run.calls) = 2
    /\ run.calls[1].placed /\ run.calls[2].placed
    /\ FollowsRule(run.calls[1], FP)
    /\ Max3(Size(run.calls[1].min_coords, run.calls[1].max_coords)) > 0
    /\ ~FollowsRule(run.calls[2], FP)
    /\ run.calls[2].location[3] =
           Center(run.calls[2].min_coords, run.calls[2].max_coords)[3]


=============================================================================
